---------------------------- MODULE Spec2Model ----------------------------
(***************************************************************************)
(* Print Preview Studio: the sheet-layout computations, the rebuild of the *)
(* 3D stack with its GPU resources, and the asynchronous file loads, of    *)
(* the two 3D variants of the application:                                 *)
(*   "cascade"  src/src/App.vue         (cap 24, no orientation)           *)
(*   "grid"     src/unnamed/part_000    (cap 100, orientation, labels)     *)
(* Line numbers in comments are those of src/unnamed/part_000 unless a     *)
(* file is named.                                                          *)
(*                                                                         *)
(* Encodings.  null page index = NoPage; null url = NoUrl (urls are        *)
(* <<file name, page number>>); a material's map is <<>> (null) or a       *)
(* one-element sequence holding the texture; null maxPageCount = NoCount;  *)
(* null file / loadError = "null".  Angles are in degrees.  Page sizes are *)
(* integers (the default page 1 x 1.414 is 1000 x 1414).                   *)
(***************************************************************************)
EXTENDS Integers, Sequences, FiniteSets, TLC

VARIABLES
    variant,        \* which of the two components is running
    phase,          \* "setup" | "mounted" | "unmounted" (component lifecycle)
    scene,          \* scene and stackGroup are non-null (set by initScene)
    pages, copies, duplex, flip, orientation,      \* the print settings refs
    file, isLoading, loadError, maxPageCount, pageRenders,
    stackGroup,     \* stackGroup.children: the sheet groups of the last rebuild
    disposable,     \* the disposable array: ids of resources to release
    resources,      \* id -> [kind, disposed]: placement resources followed
    rebuilds,       \* number of buildStack runs so far, saturating at MaxRebuilds
    tasks,          \* loadFile calls suspended at an await
    loadsStarted,   \* number of loadFile calls so far
    frame           \* renderer.render calls so far, and what the last one drew

settingsVars == <<pages, copies, duplex, flip, orientation>>
fileVars     == <<file, isLoading, loadError, maxPageCount, pageRenders>>
renderVars   == <<stackGroup, disposable, resources, rebuilds>>
vars == <<variant, phase, scene, pages, copies, duplex, flip, orientation,
          file, isLoading, loadError, maxPageCount, pageRenders,
          stackGroup, disposable, resources, rebuilds, tasks, loadsStarted,
          frame>>

----------------------------------------------------------------------------
(* Bounds of the model *)

MaxPages    == 8    \* largest value typed into "Pages per copy"
BelowOne    == 2    \* how far below 1 a typed number may go (1 - BelowOne .. )
SmallCopies == 2    \* "Copies" takes 1 - BelowOne .. SmallCopies, and BigCopies
BigCopies   == 13   \* a copy count that pushes totalSheets over both caps
MaxRebuilds == 2    \* the rebuild counter saturates here
MaxLoads    == 2    \* loadFile calls per run (Spec)
MaxFrames   == 3    \* render calls per run (SpecFrames)
LongPdf     == 62   \* pages of the long document h.pdf (SpecPdf)

PagesInputs  == (1 - BelowOne) .. MaxPages
CopiesInputs == ((1 - BelowOne) .. SmallCopies) \cup {BigCopies}

\* the few values typed while files are being loaded (Spec)
FewPages  == {5}
FewCopies == {2}

----------------------------------------------------------------------------
(* Helpers standing for JavaScript built-ins *)

Min(a, b) == IF a < b THEN a ELSE b
Max(a, b) == IF a > b THEN a ELSE b
Abs(a)    == IF a < 0 THEN -a ELSE a

\* Math.ceil(n / 2) for an integer n (also a negative one)
CeilHalf(n) == (n + 1) \div 2

\* Math.ceil(a / b) for integers a (also a negative one) and b > 0
CeilDiv(a, b) == -((-a) \div b)

\* a % b of JavaScript for a >= 0 and b # 0: the sign follows the dividend
JsRem(a, b) == a % Abs(b)

NoPage  == -1
NoCount == 0
NoUrl   == <<>>

----------------------------------------------------------------------------
(* Print Layout: the computed refs *)

isDuplex    == duplex = "duplex"
isLandscape == orientation = "landscape"

sheetsPerCopy_ceilMissing == IF isDuplex THEN pages \div 2 ELSE pages
sheetsPerCopy == IF isDuplex THEN CeilHalf(pages) ELSE pages

totalSheets == sheetsPerCopy * copies

totalSides_perSheet == totalSheets * (IF isDuplex THEN 2 ELSE 1)
totalSides == pages * copies

MaxRenderedCascade == 24
MaxRenderedGrid    == 100
maxRenderedSheets ==
    IF variant = "cascade" THEN MaxRenderedCascade ELSE MaxRenderedGrid

renderedSheets == Min(totalSheets, maxRenderedSheets)
hiddenSheets   == Max(totalSheets - renderedSheets, 0)
hasRenderedPages == Len(pageRenders) > 0

----------------------------------------------------------------------------
(* Resources.  A create function yields its value and, in allocation order, *)
(* the resources it allocated, each with the number of times it was pushed  *)
(* onto the disposable array.                                               *)

Alloc(kind, pushes) == [kind |-> kind, pushes |-> pushes]

createTexture_noPush(url, rotation) ==
    [value  |-> [url |-> url, rotation |-> rotation],
     allocs |-> <<Alloc("texture", 0)>>]
createTexture(url, rotation) ==
    [value  |-> [url |-> url, rotation |-> rotation],
     allocs |-> <<Alloc("texture", 1)>>]

createPageMaterial(url, rotation) ==
    LET texture == createTexture(url, rotation)
    IN  [value  |-> [color |-> IF url # NoUrl THEN "ffffff" ELSE "f1f5f9",
                     map   |-> IF url # NoUrl THEN <<texture.value>> ELSE <<>>],
         allocs |-> (IF url # NoUrl THEN texture.allocs ELSE <<>>)
                    \o <<Alloc("material", 1)>>]

\* the 2D canvas context is taken to be available (lines 80, 93)
createLabelSprite(text) ==
    [value  |-> [text |-> text],
     allocs |-> <<Alloc("texture", 1), Alloc("material", 1)>>]

\* disposable is kept as a bag (id -> number of occurrences in the array):
\* forEach(dispose) does not depend on the order.
EmptyBag == [id \in {} |-> 0]

\* the number of times dispose() has been called on id once
\* disposable.forEach((item) => item.dispose()) has run
DisposedAfter(id) ==
    resources[id].disposed
    + (IF id \in DOMAIN disposable THEN disposable[id] ELSE 0)

\* A resource disposed exactly once and no longer in the disposable array
\* can never be touched again; it is dropped from the bookkeeping.
disposeStack_keepsArray ==
    [resources  |->
        [id \in {x \in DOMAIN resources :
                    DisposedAfter(x) # 1 \/ x \in DOMAIN disposable} |->
            [kind |-> resources[id].kind, disposed |-> DisposedAfter(id)]],
     disposable |-> disposable,
     stackGroup |-> IF scene THEN <<>> ELSE stackGroup]
disposeStack_noDispose ==
    [resources  |-> resources,
     disposable |-> EmptyBag,
     stackGroup |-> IF scene THEN <<>> ELSE stackGroup]
disposeStack_keepsChildren ==
    [resources  |->
        [id \in {x \in DOMAIN resources : DisposedAfter(x) # 1} |->
            [kind |-> resources[id].kind, disposed |-> DisposedAfter(id)]],
     disposable |-> EmptyBag,
     stackGroup |-> stackGroup]
disposeStack ==
    [resources  |->
        [id \in {x \in DOMAIN resources : DisposedAfter(x) # 1} |->
            [kind |-> resources[id].kind, disposed |-> DisposedAfter(id)]],
     disposable |-> EmptyBag,
     stackGroup |-> IF scene THEN <<>> ELSE stackGroup]

----------------------------------------------------------------------------
(* buildStack: the values it computes from the current refs *)

pageCount == Max(pages, 1)

DefaultPage == [url |-> NoUrl, width |-> 1000, height |-> 1414]
base == IF Len(pageRenders) > 0 THEN pageRenders[1] ELSE DefaultPage

isSourceLandscape == base.width >= base.height

\* planeWidth / planeHeight as a fraction <<numerator, denominator>>
targetAspect ==
    IF variant = "cascade" THEN <<base.width, base.height>>
    ELSE IF isLandscape
         THEN <<Max(base.width, base.height), Min(base.width, base.height)>>
         ELSE <<Min(base.width, base.height), Max(base.width, base.height)>>

renderCount == Min(totalSheets, maxRenderedSheets)

effectiveFlip_noSwap == flip
effectiveFlip ==
    IF variant = "grid" /\ isLandscape
    THEN (IF flip = "long" THEN "short" ELSE "long")
    ELSE flip

orientationRotation ==
    IF variant = "cascade" THEN 0
    ELSE IF isLandscape = isSourceLandscape THEN 0 ELSE 90

backRotation == (IF effectiveFlip = "short" THEN 180 ELSE 0) + orientationRotation

\* the grid (grid variant)
MaxColumns == 10
columns_uncapped == Max(1, renderCount)
columns == Min(MaxColumns, Max(1, renderCount))
rows    == CeilDiv(renderCount, columns)

\* what one run of buildStack reads from the refs; none of it changes
\* during the loop
locals ==
    [isDuplex            |-> isDuplex,
     sheetsPerCopy       |-> sheetsPerCopy,
     pageCount           |-> pageCount,
     pageRenders         |-> pageRenders,
     renderCount         |-> renderCount,
     targetAspect        |-> targetAspect,
     orientationRotation |-> orientationRotation,
     backRotation        |-> backRotation,
     columns             |-> columns,
     rows                |-> rows,
     labelled            |-> variant = "grid"]

\* pageRenders.value[index]?.url ?? null
UrlOf(renders, index) ==
    IF index # NoPage /\ index + 1 <= Len(renders)
    THEN renders[index + 1].url ELSE NoUrl

frontPageOf_alwaysSimplex(duplexOn, sheetIndex) == sheetIndex
frontPageOf(duplexOn, sheetIndex) ==
    IF duplexOn THEN sheetIndex * 2 ELSE sheetIndex
backPageOf_alwaysDuplex(duplexOn, sheetIndex) == sheetIndex * 2 + 1
backPageOf(duplexOn, sheetIndex) ==
    IF duplexOn THEN sheetIndex * 2 + 1 ELSE NoPage

\* sheetGroup.position.set(x, 0, z) of the grid variant, x in units of
\* spacingX / 2 and z in units of spacingZ / 2:
\*   x = col * spacingX - totalWidth / 2,  totalWidth = (columns - 1) * spacingX
\*   z = totalDepth / 2 - row * spacingZ,  totalDepth = (rows - 1) * spacingZ
GridPosition(col, row, c) ==
    <<2 * col - (c.columns - 1), 0, (c.rows - 1) - 2 * row>>

\* sheetGroup.position.y = -i * 0.015 of the cascade variant, in units of
\* 0.015
CascadePosition(i) == <<0, -i, 0>>

\* sheetGroup.rotation.x in fifths of a degree: 6 + i * 0.2 degrees in the
\* cascade, -18 degrees in the grid
CascadeTilt(i) == 30 + i
GridTilt == -90

\* one pass of the loop body, for loop index i
Sheet(i, c) ==
    LET sheetIndex == JsRem(i, c.sheetsPerCopy)
        frontPage  == frontPageOf(c.isDuplex, sheetIndex)
        backPage   == backPageOf(c.isDuplex, sheetIndex)
        frontIndex == IF frontPage < c.pageCount THEN frontPage ELSE NoPage
        backIndex  == IF backPage # NoPage /\ backPage < c.pageCount
                      THEN backPage ELSE NoPage
        frontMaterial == createPageMaterial(UrlOf(c.pageRenders, frontIndex),
                                            c.orientationRotation)
        backMaterial  == createPageMaterial(UrlOf(c.pageRenders, backIndex),
                                            c.backRotation)
        label == IF c.labelled THEN createLabelSprite(i + 1)
                 ELSE [value |-> [text |-> 0], allocs |-> <<>>]
        col == i % c.columns
        row == i \div c.columns
    IN  [value  |-> [i          |-> i,
                     frontIndex |-> frontIndex,
                     backIndex  |-> backIndex,
                     geometry   |-> c.targetAspect,
                     front      |-> frontMaterial.value,
                     back       |-> backMaterial.value,
                     cell       |-> IF c.labelled THEN <<col, row>> ELSE <<>>,
                     position   |-> IF c.labelled
                                    THEN GridPosition(col, row, c)
                                    ELSE CascadePosition(i),
                     rotationX  |-> IF c.labelled THEN GridTilt
                                    ELSE CascadeTilt(i),
                     label      |-> label.value.text],
         allocs |-> <<Alloc("geometry", 1)>> \o frontMaterial.allocs
                    \o backMaterial.allocs \o label.allocs]

\* the loop: per pass, the sheet group added to stackGroup and what the pass
\* allocated
builtSheets(c) == [k \in 1 .. Max(c.renderCount, 0) |-> Sheet(k - 1, c)]

\* everything the loop allocated, in allocation order
RECURSIVE AllocsOf(_, _)
AllocsOf(sheets, n) ==
    IF n = 0 THEN <<>> ELSE AllocsOf(sheets, n - 1) \o sheets[n].allocs

Overlay(f, g) ==
    [x \in DOMAIN f \cup DOMAIN g |-> IF x \in DOMAIN g THEN g[x] ELSE f[x]]

\* Resources are numbered in allocation order, after the largest number
\* still in use.
LastId(ids) == IF ids = {} THEN 0 ELSE CHOOSE m \in ids : \A x \in ids : x <= m

\* buildStack, run after the refs took their new (primed) values
buildStack ==
    IF ~scene'
    THEN UNCHANGED renderVars
    ELSE \E d \in {disposeStack} : \E c \in {locals'} :
         \E sheets \in {builtSheets(c) \o <<>>} :
         \E allocs \in {AllocsOf(sheets, Len(sheets))} :
         \E last \in {LastId(DOMAIN d.resources \cup DOMAIN d.disposable)} :
           /\ stackGroup' =
                d.stackGroup \o [k \in DOMAIN sheets |-> sheets[k].value]
           /\ resources' =
                Overlay(d.resources,
                        [id \in (last + 1) .. (last + Len(allocs)) |->
                           [kind |-> allocs[id - last].kind, disposed |-> 0]])
           /\ disposable' =
                Overlay(d.disposable,
                        [id \in {x \in (last + 1) .. (last + Len(allocs)) :
                                   allocs[x - last].pushes > 0} |->
                           allocs[id - last].pushes])
           /\ rebuilds' = Min(rebuilds + 1, MaxRebuilds)

\* watch([pages, copies, duplex, flip, pageRenders]) / watch(orientation):
\* the callback runs, before anything else can happen, when a source changed
Watch(changed) ==
    IF changed /\ phase' = "mounted" THEN buildStack ELSE UNCHANGED renderVars

----------------------------------------------------------------------------
(* Lifecycle and the settings form *)

Init ==
    /\ variant \in {"cascade", "grid"}
    /\ phase = "setup"
    /\ scene = FALSE
    /\ pages = 8 /\ copies = 1 /\ duplex = "duplex" /\ flip = "long"
    /\ orientation = "portrait"
    /\ file = "null" /\ isLoading = FALSE /\ loadError = "null"
    /\ maxPageCount = NoCount /\ pageRenders = <<>>
    /\ stackGroup = <<>> /\ disposable = EmptyBag /\ resources = EmptyBag
    /\ rebuilds = 0
    /\ tasks = EmptyBag /\ loadsStarted = 0
    /\ frame = [count |-> 0, stack |-> <<>>]

\* onMounted: initScene(), which ends with a first call of animate() on the
\* still empty stackGroup; then buildStack()
Mount ==
    /\ phase = "setup"
    /\ phase' = "mounted"
    /\ scene' = TRUE
    /\ frame' = [count |-> frame.count + 1, stack |-> stackGroup]
    /\ UNCHANGED <<variant, settingsVars, fileVars, tasks, loadsStarted>>
    /\ buildStack

\* onBeforeUnmount: disposeStack(); the watchers stop with the component
Unmount ==
    /\ phase = "mounted"
    /\ phase' = "unmounted"
    /\ stackGroup' = disposeStack.stackGroup
    /\ disposable' = disposeStack.disposable
    /\ resources'  = disposeStack.resources
    /\ UNCHANGED <<variant, frame, scene, settingsVars, fileVars, rebuilds, tasks,
                   loadsStarted>>

\* animate, as the requestAnimationFrame callback: it draws the scene and
\* asks for the next frame.  renderer, scene, camera and controls are set by
\* initScene and never reset, and onBeforeUnmount cancels nothing.
animate ==
    /\ scene
    /\ frame.count < MaxFrames
    /\ frame' = [count |-> frame.count + 1, stack |-> stackGroup]
    /\ UNCHANGED <<variant, phase, scene, settingsVars, fileVars, renderVars,
                   tasks, loadsStarted>>

SetPages(n) ==
    /\ phase = "mounted"
    /\ pages' = n
    /\ UNCHANGED <<variant, frame, phase, scene, copies, duplex, flip, orientation,
                   fileVars, tasks, loadsStarted>>
    /\ Watch(n # pages)

SetCopies(n) ==
    /\ phase = "mounted"
    /\ copies' = n
    /\ UNCHANGED <<variant, frame, phase, scene, pages, duplex, flip, orientation,
                   fileVars, tasks, loadsStarted>>
    /\ Watch(n # copies)

SetDuplex(d) ==
    /\ phase = "mounted"
    /\ duplex' = d
    /\ UNCHANGED <<variant, frame, phase, scene, pages, copies, flip, orientation,
                   fileVars, tasks, loadsStarted>>
    /\ Watch(d # duplex)

\* the flip select is disabled unless duplex
SetFlip(f) ==
    /\ phase = "mounted"
    /\ isDuplex
    /\ flip' = f
    /\ UNCHANGED <<variant, frame, phase, scene, pages, copies, duplex, orientation,
                   fileVars, tasks, loadsStarted>>
    /\ Watch(f # flip)

\* the orientation select exists in the grid variant only
SetOrientation(o) ==
    /\ phase = "mounted"
    /\ variant = "grid"
    /\ orientation' = o
    /\ UNCHANGED <<variant, frame, phase, scene, pages, copies, duplex, flip,
                   fileVars, tasks, loadsStarted>>
    /\ Watch(o # orientation)

----------------------------------------------------------------------------
(* Files the user can pick, and what decoding each gives.  A url is         *)
(* <<file name, page number>>.                                              *)

Files == {"a.pdf", "b.pdf", "c.pdf", "d.png", "e.png", "f.txt"}

\* the files of SpecLayout: both decode, one portrait and one landscape
LayoutFiles == {"a.pdf", "g.pdf"}

\* the files of SpecPdf: a short document and one of more than 60 pages
PdfFiles == {"a.pdf", "h.pdf"}

TypeOf(f) ==
    CASE f \in {"a.pdf", "b.pdf", "c.pdf", "g.pdf", "h.pdf"} -> "application/pdf"
      [] f \in {"d.png", "e.png"}          -> "image/png"
      [] OTHER                             -> "text/plain"

\* pdf.numPages
NumPagesOf(f) ==
    CASE f = "a.pdf" -> 3
      [] f \in {"b.pdf", "g.pdf"} -> 2
      [] f = "h.pdf" -> LongPdf
      [] OTHER -> 1

\* where decoding throws: "open" (arrayBuffer / getDocument / img.onerror),
\* a page number (getPage / page.render of that page), or "never"
FailsAt(f) ==
    CASE f \in {"c.pdf", "e.png"} -> <<"open">>
      [] f = "b.pdf"              -> <<"page", 2>>
      [] OTHER                    -> <<"never">>

\* d.png and g.pdf are landscape, the others portrait
RenderOf(f, n) ==
    [url    |-> <<f, n>>,
     width  |-> IF f \in {"d.png", "g.pdf"} THEN 3 ELSE 2,
     height |-> IF f \in {"d.png", "g.pdf"} THEN 2 ELSE 3]

MaxPdfPages == 60

\* const count = Math.min(pdf.numPages, 60)
PdfCount_uncapped(numPages) == numPages
PdfCount(numPages) == Min(numPages, MaxPdfPages)

IsPdf(f)   == TypeOf(f) = "application/pdf"
\* selected.type.startsWith("image/")
IsImage(f) == TypeOf(f) \in {"image/png", "image/jpeg", "image/gif"}

----------------------------------------------------------------------------
(* loadFile and its awaits.  A task is a loadFile call suspended at an       *)
(* await: pc "open" = loadPdf before pdf is there (lines 266-268), "page" = *)
(* inside the page loop (lines 275, 282), "image" = loadImage at line 296.  *)

Finish(id) == [t \in DOMAIN tasks \ {id} |-> tasks[t]]

\* loadFile up to its first await, or to its end for an unsupported type
LoadFile(f) ==
    /\ phase = "mounted"
    /\ loadsStarted' = loadsStarted + 1
    /\ file' = f
    /\ pageRenders' = <<>>
    /\ UNCHANGED <<variant, frame, phase, scene, settingsVars, maxPageCount>>
    /\ IF IsPdf(f) \/ IsImage(f)
       THEN /\ isLoading' = TRUE
            /\ loadError' = "null"
            /\ tasks' = Overlay(tasks,
                   [t \in {loadsStarted + 1} |->
                      [file |-> f, pc |-> IF IsPdf(f) THEN "open" ELSE "image",
                       count |-> 0, i |-> 0, renders |-> <<>>]])
       ELSE /\ isLoading' = FALSE
            /\ loadError' = "Unsupported file format."
            /\ UNCHANGED tasks
    /\ Watch(TRUE)

\* catch (error) { loadError = ... } finally { isLoading = false }
Caught(id, message) ==
    /\ loadError' = message
    /\ isLoading' = FALSE
    /\ tasks' = Finish(id)
    /\ UNCHANGED <<variant, frame, phase, scene, settingsVars, file, maxPageCount,
                   pageRenders, renderVars, loadsStarted>>

\* await selected.arrayBuffer(); await loadingTask.promise; lines 269-271
PdfOpenOk(id) ==
    /\ id \in DOMAIN tasks /\ tasks[id].pc = "open"
    /\ FailsAt(tasks[id].file)[1] # "open"
    /\ LET numPages == NumPagesOf(tasks[id].file)
           count    == PdfCount(numPages)
       IN  /\ maxPageCount' = numPages
           /\ pages' = count
           /\ tasks' = [tasks EXCEPT ![id].pc = "page", ![id].count = count,
                                     ![id].i = 1]
    /\ UNCHANGED <<variant, frame, phase, scene, copies, duplex, flip, orientation,
                   file, isLoading, loadError, pageRenders, loadsStarted>>
    /\ Watch(pages' # pages)

PdfOpenFail(id) ==
    /\ id \in DOMAIN tasks /\ tasks[id].pc = "open"
    /\ FailsAt(tasks[id].file)[1] = "open"
    /\ Caught(id, "Invalid PDF structure.")

\* await pdf.getPage(i); await page.render(...).promise; renders.push(...);
\* after the last page: pageRenders.value = renders, and loadFile's finally
PdfPageOk(id) ==
    /\ id \in DOMAIN tasks /\ tasks[id].pc = "page"
    /\ FailsAt(tasks[id].file) # <<"page", tasks[id].i>>
    /\ UNCHANGED <<variant, frame, phase, scene, settingsVars, loadsStarted>>
    /\ LET t       == tasks[id]
           renders == Append(t.renders, RenderOf(t.file, t.i))
       IN  IF t.i < t.count
           THEN /\ tasks' = [tasks EXCEPT ![id].i = t.i + 1,
                                          ![id].renders = renders]
                /\ UNCHANGED <<fileVars, renderVars>>
           ELSE /\ pageRenders' = renders
                /\ isLoading' = FALSE
                /\ tasks' = Finish(id)
                /\ UNCHANGED <<file, loadError, maxPageCount>>
                /\ Watch(TRUE)

PdfPageFail(id) ==
    /\ id \in DOMAIN tasks /\ tasks[id].pc = "page"
    /\ FailsAt(tasks[id].file) = <<"page", tasks[id].i>>
    /\ Caught(id, "Page render failed.")

\* img.onload: lines 300-312, and loadFile's finally
ImageOk(id) ==
    /\ id \in DOMAIN tasks /\ tasks[id].pc = "image"
    /\ FailsAt(tasks[id].file)[1] # "open"
    /\ pageRenders' = <<RenderOf(tasks[id].file, 1)>>
    /\ maxPageCount' = 1
    /\ pages' = 1
    /\ isLoading' = FALSE
    /\ tasks' = Finish(id)
    /\ UNCHANGED <<variant, frame, phase, scene, copies, duplex, flip, orientation,
                   file, loadError, loadsStarted>>
    /\ Watch(TRUE)

\* img.onerror rejects with an Event, which is no Error
ImageFail(id) ==
    /\ id \in DOMAIN tasks /\ tasks[id].pc = "image"
    /\ FailsAt(tasks[id].file)[1] = "open"
    /\ Caught(id, "Failed to read file.")

\* the Remove button, shown while a file is set
clearFile ==
    /\ phase = "mounted"
    /\ file # "null"
    /\ file' = "null"
    /\ pageRenders' = <<>>
    /\ maxPageCount' = NoCount
    /\ UNCHANGED <<variant, frame, phase, scene, settingsVars, isLoading, loadError,
                   tasks, loadsStarted>>
    /\ Watch(TRUE)

TaskIds == 1 .. MaxLoads

Decode ==
    \/ \E id \in TaskIds : PdfOpenOk(id)
    \/ \E id \in TaskIds : PdfOpenFail(id)
    \/ \E id \in TaskIds : PdfPageOk(id)
    \/ \E id \in TaskIds : PdfPageFail(id)
    \/ \E id \in TaskIds : ImageOk(id)
    \/ \E id \in TaskIds : ImageFail(id)

\* Spec: every file, loads that overlap, a few values in the settings form
Next ==
    \/ Mount
    \/ Unmount
    \/ \E n \in FewPages : SetPages(n)
    \/ \E n \in FewCopies : SetCopies(n)
    \/ \E f \in Files : loadsStarted < MaxLoads /\ LoadFile(f)
    \/ Decode
    \/ clearFile

Spec == Init /\ [][Next]_vars

\* SpecLayout: the whole settings form, and one load of a file that decodes
NextLayout ==
    \/ Mount
    \/ Unmount
    \/ \E n \in PagesInputs : SetPages(n)
    \/ \E n \in CopiesInputs : SetCopies(n)
    \/ \E d \in {"simplex", "duplex"} : SetDuplex(d)
    \/ \E f \in {"long", "short"} : SetFlip(f)
    \/ \E o \in {"portrait", "landscape"} : SetOrientation(o)
    \/ \E f \in LayoutFiles : loadsStarted = 0 /\ LoadFile(f)
    \/ \E id \in TaskIds : PdfOpenOk(id)
    \/ \E id \in TaskIds : PdfPageOk(id)
    \/ clearFile

SpecLayout == Init /\ [][NextLayout]_vars

\* SpecFrames: the render loop next to a few settings changes and one load
NextFrames ==
    \/ Mount
    \/ Unmount
    \/ animate
    \/ \E n \in FewPages : SetPages(n)
    \/ \E d \in {"simplex", "duplex"} : SetDuplex(d)
    \/ \E f \in LayoutFiles : loadsStarted = 0 /\ LoadFile(f)
    \/ \E id \in TaskIds : PdfOpenOk(id)
    \/ \E id \in TaskIds : PdfPageOk(id)
    \/ clearFile

SpecFrames == Init /\ [][NextFrames]_vars

\* SpecPdf: one load of a PDF, short or longer than the page cap
NextPdf ==
    \/ Mount
    \/ Unmount
    \/ \E n \in FewPages : SetPages(n)
    \/ \E f \in PdfFiles : loadsStarted = 0 /\ LoadFile(f)
    \/ \E id \in TaskIds : PdfOpenOk(id)
    \/ \E id \in TaskIds : PdfPageOk(id)
    \/ clearFile

SpecPdf == Init /\ [][NextPdf]_vars

----------------------------------------------------------------------------
(* The claims.  While the component is mounted the stack is the one built   *)
(* from the current refs: every change of a watched ref rebuilds it.        *)

Built == phase = "mounted" /\ scene

\* the page a face shows, or NoPage for a blank face
ExpectedPage(page) == IF page # NoPage /\ page < Max(pages, 1) THEN page ELSE NoPage
ExpectedFront(i) ==
    LET k == i % Abs(sheetsPerCopy)
    IN  ExpectedPage(IF duplex = "duplex" THEN k * 2 ELSE k)
ExpectedBack(i) ==
    LET k == i % Abs(sheetsPerCopy)
    IN  ExpectedPage(IF duplex = "duplex" THEN k * 2 + 1 ELSE NoPage)

\* the image on a face showing `page`: that page's render when there is one
FaceShows(material, page) ==
    IF page # NoPage /\ page < Len(pageRenders)
    THEN material.map # <<>> /\ material.map[1].url = pageRenders[page + 1].url
    ELSE material.map = <<>>

\* C1: every sheet i that buildStack builds has, with k = i mod sheetsPerCopy
\* (the remainder, as % computes it), front page 2k (duplex) or k (simplex)
\* and back page 2k+1 (duplex) or none (simplex), a page index not below
\* pageCount being replaced by blank; with the examples of the claim.
C1_FrontBackMapping ==
    Built =>
      /\ \A n \in DOMAIN stackGroup :
           /\ stackGroup[n].i = n - 1
           /\ stackGroup[n].frontIndex = ExpectedFront(n - 1)
           /\ stackGroup[n].backIndex = ExpectedBack(n - 1)
           /\ FaceShows(stackGroup[n].front, stackGroup[n].frontIndex)
           /\ FaceShows(stackGroup[n].back, stackGroup[n].backIndex)
      /\ (pages = 8 /\ copies = 1 /\ duplex = "duplex") =>
           /\ Len(stackGroup) = 4
           /\ stackGroup[1].frontIndex = 0 /\ stackGroup[1].backIndex = 1
           /\ stackGroup[4].frontIndex = 6 /\ stackGroup[4].backIndex = 7
      /\ (pages = 7 /\ copies = 1 /\ duplex = "duplex") =>
           /\ stackGroup[4].frontIndex = 6 /\ stackGroup[4].backIndex = NoPage
      /\ (pages = 5 /\ copies = 2 /\ duplex = "simplex") =>
           /\ stackGroup[6].frontIndex = 0 /\ stackGroup[6].backIndex = NoPage

C1_Witness ==
    /\ Built /\ pages = 7 /\ copies = 2 /\ duplex = "duplex"
    /\ Len(pageRenders) = 3 /\ Len(stackGroup) = 8
    /\ stackGroup[6].frontIndex = 2 /\ stackGroup[6].front.map # <<>>
    /\ stackGroup[8].frontIndex = 6 /\ stackGroup[8].backIndex = NoPage

\* C2: with pages >= 1 and copies >= 1, sheetsPerCopy is ceil(pages / 2) in
\* duplex (the least n with 2n >= pages) and pages in simplex, and
\* totalSheets is sheetsPerCopy * copies.
C2_SheetCounts ==
    (pages >= 1 /\ copies >= 1) =>
      /\ duplex = "duplex" =>
           2 * sheetsPerCopy >= pages /\ 2 * (sheetsPerCopy - 1) < pages
      /\ duplex = "simplex" => sheetsPerCopy = pages
      /\ totalSheets = sheetsPerCopy * copies

C2_Witness ==
    /\ phase = "mounted" /\ pages = 7 /\ copies = 2 /\ duplex = "duplex"
    /\ sheetsPerCopy = 4 /\ totalSheets = 8

\* C3: with pages >= 1 and copies >= 1, totalSides is pages * copies, in
\* duplex as in simplex, after any settings changes and file loads.
C3_TotalSides ==
    (pages >= 1 /\ copies >= 1) => totalSides = pages * copies

C3_Witness ==
    /\ phase = "mounted" /\ Len(pageRenders) = 3 /\ pages = 3
    /\ copies = BigCopies /\ duplex = "duplex" /\ orientation = "portrait"
    /\ totalSides = 3 * BigCopies /\ totalSheets = 2 * BigCopies

\* C4: after every rebuild the number of sheets built is
\* min(totalSheets, MAX_RENDERED), the hidden count is
\* max(totalSheets - MAX_RENDERED, 0), and built + hidden = totalSheets.
C4_RenderCap ==
    Built =>
      /\ Len(stackGroup) = Min(totalSheets, maxRenderedSheets)
      /\ hiddenSheets = Max(totalSheets - maxRenderedSheets, 0)
      /\ Len(stackGroup) + hiddenSheets = totalSheets

\* C5: after the rebuilds and the teardown no placement resource is
\* allocated and not disposed.
Undisposed == {id \in DOMAIN resources : resources[id].disposed = 0}

C5_NoLeakAfterTeardown == phase = "unmounted" => Undisposed = {}

C5_Witness ==
    /\ phase = "unmounted" /\ rebuilds = MaxRebuilds /\ Undisposed = {}
    /\ Len(pageRenders) > 0 /\ variant = "grid"

\* C6: dispose is called exactly once on every placement resource: a
\* resource is either not yet disposed and once in the disposable array, or
\* disposed once and out of the array; none is disposed twice, on the
\* rebuild path or the teardown path.
C6_DisposedExactlyOnce ==
    /\ \A id \in DOMAIN resources :
         /\ resources[id].disposed <= 1
         /\ resources[id].disposed = 0 =>
              id \in DOMAIN disposable /\ disposable[id] = 1
         /\ resources[id].disposed = 1 => id \notin DOMAIN disposable
    /\ DOMAIN disposable \subseteq DOMAIN resources

C6_Witness ==
    /\ phase = "mounted" /\ rebuilds = MaxRebuilds
    /\ Len(stackGroup) = maxRenderedSheets
    /\ \E id \in DOMAIN resources : resources[id].kind = "texture"
    /\ \A id \in DOMAIN resources : resources[id].disposed = 0

\* a step of the loadFile call `id`
Advanced(id) ==
    id \in DOMAIN tasks /\ (id \notin DOMAIN tasks' \/ tasks'[id] # tasks[id])

\* C7: once a newer loadFile call has started (for another file), an older
\* call that is still decoding applies nothing: not its page images, page
\* count, maxPageCount or error.
C7_SingleFlight ==
    [][\A id \in TaskIds :
         (id < loadsStarted /\ Advanced(id) /\ tasks[id].file # file) =>
            UNCHANGED <<pageRenders, pages, maxPageCount, loadError>>]_vars

\* C8: loadFile of a file that is neither a PDF nor an image sets the
\* unsupported-format message and changes nothing else: file, page images,
\* maxPageCount and the print settings stay.
C8_RejectChangesNothing ==
    [][\A f \in Files :
         (loadsStarted' = loadsStarted + 1 /\ file' = f
            /\ ~IsPdf(f) /\ ~IsImage(f)) =>
            /\ loadError' = "Unsupported file format."
            /\ UNCHANGED <<file, pageRenders, maxPageCount, settingsVars>>]_vars

\* C9: a load whose decoding fails changes no print setting on its way, and
\* ends with an error message and, when it is the only load, no page images.
DecodeFails(f) == FailsAt(f)[1] # "never"

C9_FailureKeepsSettings ==
    [][\A id \in TaskIds :
         (Advanced(id) /\ DecodeFails(tasks[id].file)) =>
            /\ UNCHANGED settingsVars
            /\ id \notin DOMAIN tasks' =>
                 /\ loadError' # "null"
                 /\ loadsStarted = 1 => pageRenders' = <<>>]_vars

\* C10: in the grid variant the rotation of every back texture is, in
\* landscape, that of the other flip edge (long: 180 + orientationRotation,
\* short: orientationRotation) and, in portrait, that of the chosen edge.
AppliedFlipAngle ==
    IF orientation = "landscape"
    THEN (IF flip = "long" THEN 180 ELSE 0)
    ELSE (IF flip = "short" THEN 180 ELSE 0)

C10_LandscapeSwapsFlip ==
    (Built /\ variant = "grid") =>
      /\ backRotation = AppliedFlipAngle + orientationRotation
      /\ \A n \in DOMAIN stackGroup :
           stackGroup[n].back.map # <<>> =>
             stackGroup[n].back.map[1].rotation
               = AppliedFlipAngle + orientationRotation

C10_Witness ==
    /\ Built /\ variant = "grid" /\ orientation = "landscape" /\ flip = "long"
    /\ Len(pageRenders) > 0 /\ ~isSourceLandscape
    /\ Len(stackGroup) > 0 /\ stackGroup[1].back.map # <<>>
    /\ stackGroup[1].back.map[1].rotation = 270

\* C11: with pages < 1 or copies < 1 typed in, sheetsPerCopy, totalSheets,
\* totalSides, the rendered and hidden counts and the sheets built are
\* those of the setting with each such value replaced by 1, and none of the
\* counts but the hidden one is zero or negative.
C11_OutOfRangeClamped ==
    LET p   == Max(pages, 1)
        c   == Max(copies, 1)
        spc == IF duplex = "duplex" THEN CeilHalf(p) ELSE p
    IN  /\ sheetsPerCopy = spc
        /\ totalSheets = spc * c
        /\ totalSides = p * c
        /\ renderedSheets = Min(spc * c, maxRenderedSheets)
        /\ hiddenSheets = Max(spc * c - maxRenderedSheets, 0)
        /\ sheetsPerCopy >= 1 /\ totalSheets >= 1 /\ totalSides >= 1
        /\ renderedSheets >= 1
        /\ Built => Len(stackGroup) = Min(spc * c, maxRenderedSheets)

\* the stack buildStack builds from the current refs
ExpectedStack ==
    [k \in 1 .. Max(renderCount, 0) |-> Sheet(k - 1, locals).value]

\* C12: every change of a print setting or of the page images leaves the
\* stack rebuilt from the new values before a frame can be drawn, and every
\* frame drawn shows the stack of the settings and page images of its time.
C12_RebuildBeforeFrame ==
    [][/\ (scene' /\ <<settingsVars, pageRenders>>' # <<settingsVars, pageRenders>>)
            => stackGroup' = ExpectedStack'
       /\ frame'.count # frame.count => frame'.stack = ExpectedStack']_vars

\* the part of C12 about changes alone: no frame drawn at mount counts
C12_ChangeRebuilds ==
    [][(scene' /\ <<settingsVars, pageRenders>>' # <<settingsVars, pageRenders>>)
          => stackGroup' = ExpectedStack']_vars

\* the same while the component is mounted, where it holds
C12_MountedFramesCurrent ==
    [][(phase = "mounted" /\ phase' = "mounted") =>
         /\ stackGroup' = ExpectedStack'
         /\ frame'.count # frame.count => frame'.stack = ExpectedStack']_vars

\* C13: buildStack is idempotent: whatever rebuilds came before, the sheets
\* in the stack (their number, positions, rotations, front and back pages
\* and texture rotations) are those that the current settings and page
\* images alone determine; nothing an earlier rebuild left is among them.
C13_RebuildIdempotent == Built => stackGroup = ExpectedStack

\* the default settings again, after a document was loaded and removed
C13_Witness ==
    /\ Built /\ rebuilds = MaxRebuilds /\ loadsStarted = 1 /\ file = "null"
    /\ tasks = EmptyBag /\ pageRenders = <<>>
    /\ pages = 8 /\ copies = 1 /\ duplex = "duplex" /\ flip = "long"
    /\ orientation = "portrait"
    /\ Len(stackGroup) = 4 /\ stackGroup[4].backIndex = 7

\* the first n page images of file f, in page order
FirstPages(f, n) == [k \in 1 .. n |-> RenderOf(f, k)]

\* C14: a PDF load of a document of n pages sets maxPageCount to n and
\* pages to min(n, 60) when the document opens, and when it completes it
\* sets the page images to those of the first min(n, 60) pages, in order,
\* at most 60 of them; maxPageCount is n then, unless the file was removed
\* in between.
C14_PdfPageCap ==
    [][\A id \in TaskIds :
         (Advanced(id) /\ IsPdf(tasks[id].file) /\ loadError' = loadError) =>
           LET f == tasks[id].file
               n == NumPagesOf(f)
           IN  /\ tasks[id].pc = "open" =>
                    pages' = Min(n, 60) /\ maxPageCount' = n
               /\ id \notin DOMAIN tasks' =>
                    /\ pageRenders' = FirstPages(f, Min(n, 60))
                    /\ Len(pageRenders') <= 60
                    /\ file' = f => maxPageCount' = n]_vars

\* the long document is loaded: 60 of its pages, reported as LongPdf pages
C14_Witness ==
    /\ file = "h.pdf" /\ tasks = EmptyBag /\ loadError = "null"
    /\ Len(pageRenders) = 60 /\ pageRenders[60].url = <<"h.pdf", 60>>
    /\ pages = 60 /\ maxPageCount = LongPdf /\ LongPdf > 60

\* the placement resources of one kind that are allocated and not disposed
Live(kind) == {id \in Undisposed : resources[id].kind = kind}

\* what the sheets now in the stack hold
TexturedFaces ==
    Cardinality({n \in DOMAIN stackGroup : stackGroup[n].front.map # <<>>})
    + Cardinality({n \in DOMAIN stackGroup : stackGroup[n].back.map # <<>>})
Labels == IF variant = "grid" THEN Len(stackGroup) ELSE 0
PerSheet == IF variant = "grid" THEN 7 ELSE 5

\* C15: in every state the live placement resources are exactly those of
\* the sheets now in the stack, the sheets of the last rebuild (per sheet
\* one geometry, two materials, a texture per face with an image, and in the
\* grid a label texture and material), so at most PerSheet * MAX_RENDERED,
\* after any number of rebuilds and for any copies * pageCount.
C15_NoStaleResources ==
    /\ Cardinality(Live("geometry")) = Len(stackGroup)
    /\ Cardinality(Live("material")) = 2 * Len(stackGroup) + Labels
    /\ Cardinality(Live("texture")) = TexturedFaces + Labels
    /\ Cardinality(Undisposed) <= PerSheet * maxRenderedSheets
    /\ Len(stackGroup) <= maxRenderedSheets

C15_Witness ==
    /\ Built /\ rebuilds = MaxRebuilds /\ Len(pageRenders) = 3
    /\ totalSheets > maxRenderedSheets /\ Len(stackGroup) = maxRenderedSheets
    /\ TexturedFaces > 0
    /\ Cardinality(Undisposed) > 3 * maxRenderedSheets

\* the grid of n sheets: its columns, and its rows (the least r with
\* r * columns >= n)
GridColumns(n) == Min(10, Max(1, n))
GridRows(n) ==
    CHOOSE r \in 0 .. n : r * GridColumns(n) >= n
                          /\ \A q \in 0 .. (r - 1) : q * GridColumns(n) < n

Negated(offsets) == {-x : x \in offsets}

\* C16: in the grid variant, with n sheets built, sheet i is in column
\* i mod columns and row floor(i / columns) for columns = min(10, max(1, n))
\* and rows = ceil(n / columns); columns and rows are within the grid, no
\* two sheets share a cell, and the offsets of the columns of the (full)
\* first row and of the rows are symmetric about 0.
C16_GridPlacement ==
    (Built /\ variant = "grid") =>
      LET n    == Len(stackGroup)
          cols == GridColumns(n)
          rws  == GridRows(n)
      IN  /\ n = renderCount => (columns = cols /\ rows = rws)
          /\ cols <= 10
          /\ \A k \in 1 .. n :
               LET col == (k - 1) % cols
                   row == (k - 1) \div cols
               IN  /\ stackGroup[k].cell = <<col, row>>
                   /\ 0 <= col /\ col < cols /\ 0 <= row /\ row < rws
                   /\ stackGroup[k].position
                        = <<2 * col - (cols - 1), 0, (rws - 1) - 2 * row>>
          /\ \A j, k \in 1 .. n :
               stackGroup[j].cell = stackGroup[k].cell => j = k
          /\ LET xs == {stackGroup[k].position[1] : k \in 1 .. Min(n, cols)}
                 zs == {stackGroup[k].position[3] :
                          k \in {j \in 1 .. n : stackGroup[j].cell[1] = 0}}
             IN  Negated(xs) = xs /\ Negated(zs) = zs

\* thirteen sheets: a full row of ten and a row of three
C16_Witness ==
    /\ Built /\ variant = "grid" /\ Len(stackGroup) = 13
    /\ stackGroup[10].cell = <<9, 0>> /\ stackGroup[13].cell = <<2, 1>>
    /\ stackGroup[1].position = <<-9, 0, 1>>
    /\ stackGroup[13].position = <<-5, 0, -1>>

\* what buildStack reads when the flip setting is the other one
OtherFlipLocals ==
    [locals EXCEPT !.backRotation =
        (IF effectiveFlip = "short" THEN 0 ELSE 180) + orientationRotation]

\* C17: in simplex mode the flip setting has no effect: the stack is the one
\* a rebuild with the other flip setting gives (same sheets, positions and
\* front images), and every back face is blank, with no texture.
C17_FlipOnlyInDuplex ==
    (Built /\ duplex = "simplex") =>
      /\ stackGroup =
           [k \in 1 .. Max(renderCount, 0) |-> Sheet(k - 1, OtherFlipLocals).value]
      /\ \A n \in DOMAIN stackGroup :
           stackGroup[n].backIndex = NoPage /\ stackGroup[n].back.map = <<>>

C17_Witness ==
    /\ Built /\ duplex = "simplex" /\ flip = "short"
    /\ Len(pageRenders) = 3 /\ pages = 3 /\ copies = 2
    /\ Len(stackGroup) = 6 /\ stackGroup[6].front.map # <<>>
    /\ OtherFlipLocals.backRotation # locals.backRotation

\* C18: isLoading is true exactly in the states in which some loadFile call
\* has started and not finished, also when loads overlap.
C18_LoadingTracksDecode == isLoading <=> (DOMAIN tasks # {})

\* C19: in every state without a file (after clearFile, and before a next
\* loadFile) there are no page images and no maxPageCount, also when a
\* decode was in flight when the file was removed.
C19_ClearedStaysCleared ==
    file = "null" => (pageRenders = <<>> /\ maxPageCount = NoCount)

\* the page index on a face of sheet i (side 1 = front, 2 = back), as
\* buildStack assigns it, or NoPage for a blank face
FaceAt(i, side) ==
    LET k == JsRem(i, sheetsPerCopy)
        p == IF side = 1 THEN frontPageOf(isDuplex, k)
             ELSE backPageOf(isDuplex, k)
    IN  IF p # NoPage /\ p < pageCount THEN p ELSE NoPage

\* the sheet indices of copy c, and their faces
Run(c) == (c * sheetsPerCopy) .. ((c + 1) * sheetsPerCopy - 1)
FacesOf(sheetIndices) == sheetIndices \X {1, 2}

\* C20: within each copy every page index below pageCount is on exactly one
\* face, the pages come in increasing order over the faces of the copy, and
\* in duplex the only blank face is the back of the last sheet of the copy,
\* when pageCount is odd; the non-blank faces of all totalSheets sheets are
\* totalSides many.  The sheets built carry these page indices.
C20_CopyCoversDocument ==
    /\ \A c \in 0 .. (copies - 1) :
         /\ \A p \in 0 .. (pageCount - 1) :
              Cardinality({f \in FacesOf(Run(c)) : FaceAt(f[1], f[2]) = p}) = 1
         /\ \A f, g \in {h \in FacesOf(Run(c)) : FaceAt(h[1], h[2]) # NoPage} :
              (f[1] < g[1] \/ (f[1] = g[1] /\ f[2] < g[2])) =>
                 FaceAt(f[1], f[2]) < FaceAt(g[1], g[2])
         /\ isDuplex =>
              \A f \in FacesOf(Run(c)) :
                 FaceAt(f[1], f[2]) = NoPage =>
                    /\ f = <<(c + 1) * sheetsPerCopy - 1, 2>>
                    /\ pageCount % 2 = 1
    /\ Cardinality({f \in FacesOf(0 .. (totalSheets - 1)) :
                       FaceAt(f[1], f[2]) # NoPage}) = totalSides
    /\ Built =>
         \A n \in DOMAIN stackGroup :
            /\ stackGroup[n].frontIndex = FaceAt(n - 1, 1)
            /\ stackGroup[n].backIndex = FaceAt(n - 1, 2)

\* the same for settings inside the input domain, where it holds
C20_InDomainCovers == (pages >= 1 /\ copies >= 1) => C20_CopyCoversDocument

=============================================================================
